---- MODULE Spec2Model ----
(***************************************************************************)
(* A model of the compgeo crate: 2d lines, rays and segments, the          *)
(* distance-to-point queries, the conversions between the primitives and   *)
(* the segment intersection.                                               *)
(*                                                                         *)
(* Scalars.  The crate computes in f32.  The model computes the same       *)
(* expressions, in the same order, in exact arithmetic over numbers of the *)
(* form (a + b*sqrt(n)) / d with integers a, b, n, d: the rationals        *)
(* together with the square roots that `norm` and `Unit::new_normalize`    *)
(* introduce.  A scalar is the tuple <<a, b, n, d>> in normal form (d > 0, *)
(* n squarefree, b = 0 iff n = 1, gcd(a, b, d) = 1), so that equal numbers *)
(* are equal tuples.  The IEEE value NaN (0.0 / 0.0) is the tuple NaN.     *)
(* Rounding of f32 is not modelled: every statement below is about the     *)
(* real-number value of the expression the code evaluates.                 *)
(***************************************************************************)
EXTENDS Integers, Sequences, FiniteSets, TLC

(***************************************************************************)
(* Bounds of the model.                                                    *)
(***************************************************************************)
\* coordinates of segment endpoints and ray origins are in -MaxCoord..MaxCoord
MaxCoord == 1
\* coordinates of query points are in -MaxPt..MaxPt
MaxPt == 2
\* a ray or a normal is built from an integer vector with components in
\* -MaxDir..MaxDir
MaxDir == 2
\* the offset of a constructed line is an integer in -MaxC..MaxC
MaxC == 2
\* the length given to as_segment is a multiple of 1/2 in -MaxLen/2..MaxLen/2
MaxLen == 4
\* the vectors given to perp_vec2d have components in -MaxVec..MaxVec
MaxVec == 5

(***************************************************************************)
(* Integer helpers of the scalar arithmetic.                               *)
(***************************************************************************)
Abs(i) == IF i < 0 THEN -i ELSE i

Sgn(i) == IF i < 0 THEN -1 ELSE IF i = 0 THEN 0 ELSE 1

RECURSIVE GCD(_, _)
GCD(i, j) == IF j = 0 THEN i ELSE GCD(j, i % j)

\* the largest s at or above `best` whose square divides n, scanning from s
RECURSIVE SqScan(_, _, _)
SqScan(n, s, best) ==
    IF s * s > n THEN best
    ELSE SqScan(n, s + 1, IF n % (s * s) = 0 THEN s ELSE best)

\* the largest s with s*s dividing n (n >= 1)
SqPart(n) == SqScan(n, 2, 1)

(***************************************************************************)
(* f32 values.                                                             *)
(***************************************************************************)
NaN == <<0, 0, 0, 0>>

IsNaN(x) == x[4] = 0

\* a value outside the numbers the model represents: evaluating it stops TLC
Unrepresentable == CHOOSE x \in {} : TRUE

\* the normal form of (a + b*sqrt(n)) / d, for n >= 1 and d # 0
Real(a, b, n, d) ==
    LET s  == SqPart(n)
        r  == n \div (s * s)
        b1 == IF r = 1 THEN 0 ELSE b * s
        a1 == IF r = 1 THEN a + b * s ELSE a
        n1 == IF b1 = 0 THEN 1 ELSE r
        g  == GCD(GCD(Abs(a1), Abs(b1)), Abs(d))
        sg == IF d < 0 THEN -1 ELSE 1
    IN  <<sg * (a1 \div g), sg * (b1 \div g), n1, Abs(d) \div g>>

\* the rational i / j
Rat(i, j) == Real(i, 0, 1, j)

\* the integer i, as an f32 literal such as 0.0
Lit(i) == <<i, 0, 1, 1>>

\* two numbers can be combined when they lie in the same field Q(sqrt(n))
SameField(x, y) == x[2] = 0 \/ y[2] = 0 \/ x[3] = y[3]

FieldOf(x, y) == IF x[2] # 0 THEN x[3] ELSE y[3]

\* x + y
RAdd(x, y) ==
    IF IsNaN(x) \/ IsNaN(y) THEN NaN
    ELSE IF ~SameField(x, y) THEN Unrepresentable
    ELSE Real(x[1] * y[4] + y[1] * x[4], x[2] * y[4] + y[2] * x[4],
              FieldOf(x, y), x[4] * y[4])

\* -x
RNeg(x) == IF IsNaN(x) THEN NaN ELSE <<-x[1], -x[2], x[3], x[4]>>

\* x - y
RSub(x, y) == RAdd(x, RNeg(y))

\* x * y
RMul(x, y) ==
    IF IsNaN(x) \/ IsNaN(y) THEN NaN
    ELSE IF ~SameField(x, y) THEN Unrepresentable
    ELSE Real(x[1] * y[1] + x[2] * y[2] * FieldOf(x, y),
              x[1] * y[2] + x[2] * y[1], FieldOf(x, y), x[4] * y[4])

\* the sign of a number that is not NaN: -1, 0 or 1
RSign(x) ==
    LET a == x[1]
        b == x[2]
    IN  IF b = 0 THEN Sgn(a)
        ELSE IF a = 0 THEN Sgn(b)
        ELSE IF Sgn(a) = Sgn(b) THEN Sgn(a)
        ELSE IF a * a > b * b * x[3] THEN Sgn(a) ELSE Sgn(b)

IsZero(x) == ~IsNaN(x) /\ x[1] = 0 /\ x[2] = 0

\* x / y; 0.0 / 0.0 is NaN, a non-zero number over zero is an infinity
RDiv(x, y) ==
    IF IsNaN(x) \/ IsNaN(y) THEN NaN
    ELSE IF IsZero(y) THEN (IF IsZero(x) THEN NaN ELSE Unrepresentable)
    ELSE IF ~SameField(x, y) THEN Unrepresentable
    ELSE LET n   == FieldOf(x, y)
             q   == y[1] * y[1] - y[2] * y[2] * n
             \* x * conj(y), over x.d * (y.a^2 - y.b^2 n) / y.d
             num == <<x[1] * y[1] - x[2] * y[2] * n,
                      x[2] * y[1] - x[1] * y[2]>>
         IN  Real(num[1] * y[4], num[2] * y[4], n, x[4] * q)

\* the comparisons of f32: every comparison with NaN is false
RLe(x, y) == ~IsNaN(x) /\ ~IsNaN(y) /\ RSign(RSub(x, y)) <= 0

RLt(x, y) == ~IsNaN(x) /\ ~IsNaN(y) /\ RSign(RSub(x, y)) < 0

REq(x, y) == ~IsNaN(x) /\ ~IsNaN(y) /\ x = y

\* sqrt(x) of a rational x; the square root of a negative number is NaN
RSqrt(x) ==
    IF IsNaN(x) THEN NaN
    ELSE IF x[2] # 0 THEN Unrepresentable
    ELSE IF x[1] < 0 THEN NaN
    ELSE IF x[1] = 0 THEN Lit(0)
    ELSE Real(0, 1, x[1] * x[4], x[4])

RAbs(x) == IF IsNaN(x) THEN NaN ELSE IF RSign(x) < 0 THEN RNeg(x) ELSE x

(***************************************************************************)
(* nalgebra's Point2<f32> and Vector2<f32>: pairs <<x, y>> of scalars.     *)
(***************************************************************************)
\* point![x, y] and vector![x, y] with integer literals
Pt(i, j) == <<Lit(i), Lit(j)>>

\* point - point, vector - vector
VSub(u, v) == <<RSub(u[1], v[1]), RSub(u[2], v[2])>>

\* point + vector
VAdd(u, v) == <<RAdd(u[1], v[1]), RAdd(u[2], v[2])>>

\* u.dot(&v)
Dot(u, v) == RAdd(RMul(u[1], v[1]), RMul(u[2], v[2]))

\* v.norm_squared()
NormSquared(v) == Dot(v, v)

\* v.norm()
Norm(v) == RSqrt(NormSquared(v))

\* v.scale(s), s * v
Scale(v, s) == <<RMul(v[1], s), RMul(v[2], s)>>

\* PartialEq of points: false when a coordinate is NaN
PtEq(u, v) == REq(u[1], v[1]) /\ REq(u[2], v[2])

(***************************************************************************)
(* operations.rs                                                           *)
(***************************************************************************)
\* a rotation by 90 degrees clockwise
perp_vec2d_clockwise(vector) == <<vector[2], RNeg(vector[1])>>

\* rotate a vector 90 degrees counterclockwise
perp_vec2d(vector) == <<RNeg(vector[2]), vector[1]>>

\* the same rotation of a unit vector, Unit::new_unchecked: no renormalisation
perp_unit2d(vector) == <<RNeg(vector[2]), vector[1]>>

\* a normalisation that leaves the zero vector as it is
new_normalize_or_zero(value) ==
    LET n == Norm(value)
    IN  IF IsZero(n) THEN value ELSE <<RDiv(value[1], n), RDiv(value[2], n)>>

\* nalgebra's Unit::new_normalize: the vector divided by its norm
new_normalize(value) ==
    LET n == Norm(value)
    IN  <<RDiv(value[1], n), RDiv(value[2], n)>>

(***************************************************************************)
(* line/segment.rs                                                         *)
(***************************************************************************)
Segment_new(start, end) == [start |-> start, end |-> end]

\* closest_point with the second comparison strict: c2 < c1
closest_point_branch_strict(self, point) ==
    LET direction == VSub(self.end, self.start)
        w         == VSub(point, self.start)
        c1        == Dot(w, direction)
        c2        == NormSquared(direction)
    IN  IF RLe(c1, Lit(0)) THEN "start"
        ELSE IF RLt(c2, c1) THEN "end"
        ELSE "between"

\* which return statement of closest_point is taken
closest_point_branch(self, point) ==
    LET direction == VSub(self.end, self.start)
        w         == VSub(point, self.start)
        c1        == Dot(w, direction)
        c2        == NormSquared(direction)
    IN  IF RLe(c1, Lit(0)) THEN "start"
        ELSE IF RLe(c2, c1) THEN "end"
        ELSE "between"

\* closest_point without the clamp at the end point
closest_point_unclamped(self, point) ==
    LET direction == VSub(self.end, self.start)
        w         == VSub(point, self.start)
        c1        == Dot(w, direction)
        c2        == NormSquared(direction)
    IN  IF RLe(c1, Lit(0)) THEN self.start
        ELSE VAdd(self.start, Scale(direction, RDiv(c1, c2)))

closest_point(self, point) ==
    LET direction == VSub(self.end, self.start)
        w         == VSub(point, self.start)
        c1        == Dot(w, direction)
        c2        == NormSquared(direction)
        br        == closest_point_branch(self, point)
    IN  IF br = "start" THEN self.start
        ELSE IF br = "end" THEN self.end
        ELSE LET b == RDiv(c1, c2)
             IN  VAdd(self.start, Scale(direction, b))

length(self) == Norm(VSub(self.start, self.end))

length_squared(self) == NormSquared(VSub(self.start, self.end))

\* the distance to the start point instead of the closest point
Segment_distance_to_point_from_start(self, point) ==
    Norm(VSub(point, self.start))

Segment_distance_to_point(self, point) ==
    Norm(VSub(point, closest_point(self, point)))

Segment_distance_to_point_squared(self, point) ==
    NormSquared(VSub(point, closest_point(self, point)))

(***************************************************************************)
(* line/ray.rs                                                             *)
(***************************************************************************)
Ray_new(origin, direction) == [origin |-> origin, direction |-> direction]

\* as_segment with the magnitude of the length
as_segment_forward_only(self, len) ==
    Segment_new(self.origin,
                VAdd(self.origin, Scale(self.direction, RAbs(len))))

as_segment(self, len) ==
    Segment_new(self.origin, VAdd(self.origin, Scale(self.direction, len)))

\* distance_to_point without the negation behind the origin
Ray_distance_to_point_unsigned(self, point) ==
    LET w          == VSub(point, self.origin)
        projection == Dot(w, self.direction)
    IN  IF RLe(projection, Lit(0)) THEN Norm(w)
        ELSE Norm(VSub(w, Scale(self.direction, projection)))

Ray_distance_to_point(self, point) ==
    LET w          == VSub(point, self.origin)
        projection == Dot(w, self.direction)
    IN  IF RLe(projection, Lit(0)) THEN RNeg(Norm(w))
        ELSE Norm(VSub(w, Scale(self.direction, projection)))

\* distance_to_point_squared computed as the square of distance_to_point
Ray_distance_to_point_squared_true_square(self, point) ==
    RMul(Ray_distance_to_point(self, point), Ray_distance_to_point(self, point))

Ray_distance_to_point_squared(self, point) ==
    LET w          == VSub(point, self.origin)
        projection == Dot(w, self.direction)
    IN  IF RLe(projection, Lit(0)) THEN RNeg(NormSquared(w))
        ELSE NormSquared(VSub(w, Scale(self.direction, projection)))

\* the conversion with the direction pointing from end to start
Ray_from_reversed(segment) ==
    LET direction == new_normalize(VSub(segment.start, segment.end))
        origin    == segment.start
    IN  Ray_new(origin, direction)

\* impl From<Segment> for Ray
Ray_from(segment) ==
    LET direction == new_normalize(VSub(segment.end, segment.start))
        origin    == segment.start
    IN  Ray_new(origin, direction)

(***************************************************************************)
(* line/infinite.rs                                                        *)
(***************************************************************************)
Line_new(normal, c) == [normal |-> normal, c |-> c]

Line_distance_to_point(self, point) ==
    RAdd(RAdd(RMul(self.normal[1], point[1]), RMul(self.normal[2], point[2])),
         self.c)

\* a squared distance that keeps the sign of the distance, as Ray's does
Line_distance_to_point_squared_signed(self, point) ==
    LET distance == Line_distance_to_point(self, point)
    IN  RMul(distance, RAbs(distance))

Line_distance_to_point_squared(self, point) ==
    LET distance == Line_distance_to_point(self, point)
    IN  RMul(distance, distance)

\* the conversion with the offset not negated
Line_from_offset_not_negated(ray) ==
    LET normal == perp_unit2d(ray.direction)
        c      == Line_distance_to_point(Line_new(normal, Lit(0)), ray.origin)
    IN  Line_new(normal, c)

\* impl From<Ray> for Line
Line_from(ray) ==
    LET normal == perp_unit2d(ray.direction)
        c      == RNeg(Line_distance_to_point(Line_new(normal, Lit(0)),
                                              ray.origin))
    IN  Line_new(normal, c)

(***************************************************************************)
(* line/intersection.rs                                                    *)
(***************************************************************************)
\* f32::EPSILON, 2^-23
EPSILON == Rat(1, 8388608)

\* the variants of SegmentIntersection
IntersectionNone == [tag |-> "None"]

IntersectionPoint(p) == [tag |-> "Point", point |-> p]

IntersectionOverlap(s) == [tag |-> "Overlap", segment |-> s]

\* intersect_segments with the point comparison inverted
intersect_segments_inverted(a, b) ==
    LET dir_a == VSub(a.end, a.start)
        dir_b == VSub(b.end, b.start)
    IN  IF RLe(Dot(dir_a, perp_vec2d(dir_b)), EPSILON)
        THEN LET sqr_len_a == length_squared(a)
                 sqr_len_b == length_squared(b)
             IN  IF REq(sqr_len_a, Lit(0)) /\ REq(sqr_len_b, Lit(0))
                 THEN IF ~PtEq(a.start, b.start)
                      THEN IntersectionPoint(a.start)
                      ELSE IntersectionNone
                 ELSE IntersectionNone
        ELSE IntersectionNone

\* intersect_segments without the test that both segments have length zero
intersect_segments_no_length_check(a, b) ==
    LET dir_a == VSub(a.end, a.start)
        dir_b == VSub(b.end, b.start)
    IN  IF RLe(Dot(dir_a, perp_vec2d(dir_b)), EPSILON)
        THEN IF PtEq(a.start, b.start)
             THEN IntersectionPoint(a.start)
             ELSE IntersectionNone
        ELSE IntersectionNone

\* intersect_segments testing only the length of a before comparing points
intersect_segments_only_a_checked(a, b) ==
    LET dir_a == VSub(a.end, a.start)
        dir_b == VSub(b.end, b.start)
    IN  IF RLe(Dot(dir_a, perp_vec2d(dir_b)), EPSILON)
        THEN IF REq(length_squared(a), Lit(0))
             THEN IF PtEq(a.start, b.start)
                  THEN IntersectionPoint(a.start)
                  ELSE IntersectionNone
             ELSE IntersectionNone
        ELSE IntersectionNone

\* whether intersect_segments enters the block that handles parallel and
\* zero-length segments
intersect_segments_branch(a, b) ==
    LET dir_a == VSub(a.end, a.start)
        dir_b == VSub(b.end, b.start)
    IN  IF RLe(Dot(dir_a, perp_vec2d(dir_b)), EPSILON)
        THEN "degenerate"
        ELSE "general"

intersect_segments(a, b) ==
    LET dir_a == VSub(a.end, a.start)
        dir_b == VSub(b.end, b.start)
    IN  IF RLe(Dot(dir_a, perp_vec2d(dir_b)), EPSILON)
        THEN LET sqr_len_a == length_squared(a)
                 sqr_len_b == length_squared(b)
             IN  IF REq(sqr_len_a, Lit(0)) /\ REq(sqr_len_b, Lit(0))
                 THEN IF PtEq(a.start, b.start)
                      THEN IntersectionPoint(a.start)
                      ELSE IntersectionNone
                 ELSE IntersectionNone
        ELSE IntersectionNone

(***************************************************************************)
(* The state: the values a caller holds, the last operation it called, the *)
(* argument it passed and the value returned.                              *)
(***************************************************************************)
VARIABLES
    op,      \* the last function called
    seg,     \* the Segment held, or None
    ray,     \* the Ray held, or None
    line,    \* the Line held, or None
    arg,     \* the argument of the last query: a point, a length or a segment
    res,     \* the value the last query returned, or None
    branch   \* the branch the last closest_point or intersect_segments took

vars == <<op, seg, ray, line, arg, res, branch>>

None == [kind |-> "none"]

Coords == -MaxCoord .. MaxCoord

Points == {Pt(i, j) : i \in Coords, j \in Coords}

QueryPoints == {Pt(i, j) : i \in -MaxPt .. MaxPt, j \in -MaxPt .. MaxPt}

\* the integer vectors a direction or a normal is normalised from
DirVectors ==
    {Pt(i, j) : i \in -MaxDir .. MaxDir, j \in -MaxDir .. MaxDir} \ {Pt(0, 0)}

Offsets == {Lit(i) : i \in -MaxC .. MaxC}

Lengths == {Rat(i, 2) : i \in -MaxLen .. MaxLen}

Vectors == {Pt(i, j) : i \in -MaxVec .. MaxVec, j \in -MaxVec .. MaxVec}

Init ==
    /\ op = "init"
    /\ seg = None
    /\ ray = None
    /\ line = None
    /\ arg = None
    /\ res = None
    /\ branch = "none"

(***************************************************************************)
(* Constructors.                                                           *)
(***************************************************************************)
SegmentNew ==
    /\ op = "init"
    /\ \E start \in Points, end \in Points :
          seg' = Segment_new(start, end)
    /\ op' = "Segment::new"
    /\ UNCHANGED <<ray, line, arg, res, branch>>

RayNew ==
    /\ op = "init"
    /\ \E origin \in Points, v \in DirVectors :
          ray' = Ray_new(origin, new_normalize(v))
    /\ op' = "Ray::new"
    /\ UNCHANGED <<seg, line, arg, res, branch>>

LineNew ==
    /\ op = "init"
    /\ \E v \in DirVectors, c \in Offsets :
          line' = Line_new(new_normalize(v), c)
    /\ op' = "Line::new"
    /\ UNCHANGED <<seg, ray, arg, res, branch>>

(***************************************************************************)
(* Conversions.                                                            *)
(***************************************************************************)
RayFromSegment ==
    /\ seg # None /\ ray = None /\ res = None
    /\ ray' = Ray_from(seg)
    /\ op' = "Ray::from"
    /\ UNCHANGED <<seg, line, arg, res, branch>>

LineFromRay ==
    /\ ray # None /\ line = None /\ res = None
    /\ line' = Line_from(ray)
    /\ op' = "Line::from"
    /\ UNCHANGED <<seg, ray, arg, res, branch>>

\* the length is a literal, or the length() of the segment the ray came from
AsSegment ==
    /\ ray # None /\ res = None
    /\ \E len \in Lengths \cup (IF seg = None THEN {} ELSE {length(seg)}) :
          /\ arg' = len
          /\ res' = as_segment(ray, len)
    /\ op' = "Ray::as_segment"
    /\ UNCHANGED <<seg, ray, line, branch>>

(***************************************************************************)
(* Queries.                                                                *)
(***************************************************************************)
ClosestPoint ==
    /\ seg # None /\ res = None
    /\ \E point \in QueryPoints :
          /\ arg' = point
          /\ res' = closest_point(seg, point)
          /\ branch' = closest_point_branch(seg, point)
    /\ op' = "Segment::closest_point"
    /\ UNCHANGED <<seg, ray, line>>

RayDistanceToPoint ==
    /\ ray # None /\ res = None
    /\ \E point \in QueryPoints :
          /\ arg' = point
          /\ res' = Ray_distance_to_point(ray, point)
    /\ op' = "Ray::distance_to_point"
    /\ UNCHANGED <<seg, ray, line, branch>>

RayDistanceToPointSquared ==
    /\ ray # None /\ res = None
    /\ \E point \in QueryPoints :
          /\ arg' = point
          /\ res' = Ray_distance_to_point_squared(ray, point)
    /\ op' = "Ray::distance_to_point_squared"
    /\ UNCHANGED <<seg, ray, line, branch>>

LineDistanceToPoint ==
    /\ line # None /\ res = None
    /\ \E point \in QueryPoints :
          /\ arg' = point
          /\ res' = Line_distance_to_point(line, point)
    /\ op' = "Line::distance_to_point"
    /\ UNCHANGED <<seg, ray, line, branch>>

LineDistanceToPointSquared ==
    /\ line # None /\ res = None
    /\ \E point \in QueryPoints :
          /\ arg' = point
          /\ res' = Line_distance_to_point_squared(line, point)
    /\ op' = "Line::distance_to_point_squared"
    /\ UNCHANGED <<seg, ray, line, branch>>

\* intersect_segments(&seg, &b)
IntersectSegments ==
    /\ seg # None /\ res = None
    /\ \E bs \in Points, be \in Points :
          /\ arg' = Segment_new(bs, be)
          /\ res' = intersect_segments(seg, Segment_new(bs, be))
          /\ branch' = intersect_segments_branch(seg, Segment_new(bs, be))
    /\ op' = "intersect_segments"
    /\ UNCHANGED <<seg, ray, line>>

SegmentDistanceToPoint ==
    /\ seg # None /\ res = None
    /\ \E point \in QueryPoints :
          /\ arg' = point
          /\ res' = Segment_distance_to_point(seg, point)
    /\ op' = "Segment::distance_to_point"
    /\ UNCHANGED <<seg, ray, line, branch>>

SegmentDistanceToPointSquared ==
    /\ seg # None /\ res = None
    /\ \E point \in QueryPoints :
          /\ arg' = point
          /\ res' = Segment_distance_to_point_squared(seg, point)
    /\ op' = "Segment::distance_to_point_squared"
    /\ UNCHANGED <<seg, ray, line, branch>>

(***************************************************************************)
(* The functions of operations.rs, called on a vector.                     *)
(***************************************************************************)
PerpVec2d ==
    /\ op = "init"
    /\ \E v \in Vectors :
          /\ arg' = v
          /\ res' = perp_vec2d(v)
    /\ op' = "perp_vec2d"
    /\ UNCHANGED <<seg, ray, line, branch>>

PerpUnit2d ==
    /\ op = "init"
    /\ \E v \in DirVectors :
          /\ arg' = new_normalize(v)
          /\ res' = perp_unit2d(new_normalize(v))
    /\ op' = "perp_unit2d"
    /\ UNCHANGED <<seg, ray, line, branch>>

(***************************************************************************)
(* Specifications: the whole crate, and one per family of functions.       *)
(***************************************************************************)
Next ==
    \/ SegmentNew
    \/ RayNew
    \/ LineNew
    \/ RayFromSegment
    \/ LineFromRay
    \/ AsSegment
    \/ ClosestPoint
    \/ RayDistanceToPoint
    \/ RayDistanceToPointSquared
    \/ LineDistanceToPoint
    \/ LineDistanceToPointSquared
    \/ IntersectSegments
    \/ SegmentDistanceToPoint
    \/ SegmentDistanceToPointSquared
    \/ PerpVec2d
    \/ PerpUnit2d

Spec == Init /\ [][Next]_vars

NextSegment == SegmentNew \/ ClosestPoint

SpecSegment == Init /\ [][NextSegment]_vars

NextRay == RayNew \/ RayDistanceToPoint \/ RayDistanceToPointSquared

SpecRay == Init /\ [][NextRay]_vars

NextLine ==
    \/ LineNew
    \/ RayNew
    \/ LineFromRay
    \/ LineDistanceToPoint
    \/ LineDistanceToPointSquared

SpecLine == Init /\ [][NextLine]_vars

NextConv == SegmentNew \/ RayFromSegment \/ AsSegment

SpecConv == Init /\ [][NextConv]_vars

NextIntersect == SegmentNew \/ IntersectSegments

SpecIntersect == Init /\ [][NextIntersect]_vars

NextSegmentDistance ==
    SegmentNew \/ SegmentDistanceToPoint \/ SegmentDistanceToPointSquared

SpecSegmentDistance == Init /\ [][NextSegmentDistance]_vars

NextAsSegment == RayNew \/ SegmentNew \/ RayFromSegment \/ AsSegment

SpecAsSegment == Init /\ [][NextAsSegment]_vars

NextPerp == PerpVec2d \/ PerpUnit2d

SpecPerp == Init /\ [][NextPerp]_vars

(***************************************************************************)
(* Segment::closest_point                                                  *)
(***************************************************************************)
\* q is start + t*(end - start) for some t in [0, 1]
LiesOn(s, q) ==
    LET d  == VSub(s.end, s.start)
        d2 == NormSquared(d)
    IN  IF IsZero(d2) THEN q = s.start
        ELSE LET t == RDiv(Dot(VSub(q, s.start), d), d2)
             IN  /\ RLe(Lit(0), t)
                 /\ RLe(t, Lit(1))
                 /\ q = VAdd(s.start, Scale(d, t))

\* the points start + (k/K)*(end - start), k in 0..K, for K = |end - start|^2:
\* the projection of a point with integer coordinates onto the line through
\* the segment has a parameter of this form, so the point of the segment
\* nearest to such a point is among them
PointsOn(s) ==
    LET d == VSub(s.end, s.start)
        K == NormSquared(d)[1]
    IN  IF K = 0 THEN {s.start}
        ELSE {VAdd(s.start, Scale(d, Rat(k, K))) : k \in 0 .. K}

DistSq(u, v) == NormSquared(VSub(u, v))

\* C1: closest_point(p) lies on the segment (also a zero-length one), and no
\* point of the segment is strictly closer to p than it
C1_ClosestPointOnSegmentAndNearest ==
    op = "Segment::closest_point" =>
        /\ LiesOn(seg, res)
        /\ \A q \in PointsOn(seg) : RLe(DistSq(arg, res), DistSq(arg, q))

\* a point that projects strictly inside a segment and is not on it
C1_Witness ==
    /\ op = "Segment::closest_point"
    /\ branch = "between"
    /\ res # arg
    /\ res \notin {seg.start, seg.end}

\* C2: with c1 = (p-start).(end-start) and c2 = |end-start|^2, closest_point
\* returns start when c1 <= 0, end when c1 > 0 and c2 <= c1, and
\* start + (c1/c2)*(end-start) otherwise; the ties c1 = 0 and c1 = c2 leave
\* through the start and the end branch
C2_ClosestPointBranches ==
    op = "Segment::closest_point" =>
        LET d  == VSub(seg.end, seg.start)
            c1 == Dot(VSub(arg, seg.start), d)
            c2 == NormSquared(d)
        IN  /\ RSign(c1) <= 0 => branch = "start" /\ res = seg.start
            /\ RSign(c1) > 0 /\ RSign(RSub(c2, c1)) <= 0 =>
                   branch = "end" /\ res = seg.end
            /\ RSign(c1) > 0 /\ RSign(RSub(c2, c1)) > 0 =>
                   /\ branch = "between"
                   /\ res = VAdd(seg.start, Scale(d, RDiv(c1, c2)))

\* the tie c1 = c2 on a segment of non-zero length
C2_Witness ==
    /\ op = "Segment::closest_point"
    /\ seg.start # seg.end
    /\ Dot(VSub(arg, seg.start), VSub(seg.end, seg.start))
           = NormSquared(VSub(seg.end, seg.start))
    /\ arg # seg.end
    /\ branch = "end"

(***************************************************************************)
(* Ray::distance_to_point and Ray::distance_to_point_squared               *)
(***************************************************************************)
\* t = (p - origin) . direction
ProjectionOf(r, p) == Dot(VSub(p, r.origin), r.direction)

\* the direction of r is a vector of length 1
HasUnitDirection(r) == NormSquared(r.direction) = Lit(1)

\* C3: with w = p - origin and t = w.direction, distance_to_point(p) is
\* -|w| when t <= 0, and when t > 0 it is |w - t*direction|, which is not
\* negative and is the distance from p to the infinite line through the ray
C3_RayDistance ==
    op = "Ray::distance_to_point" /\ HasUnitDirection(ray) =>
        LET w == VSub(arg, ray.origin)
            t == ProjectionOf(ray, arg)
        IN  /\ RSign(t) <= 0 => res = RNeg(RSqrt(NormSquared(w)))
            /\ RSign(t) > 0 =>
                   /\ res = RSqrt(NormSquared(VSub(w, Scale(ray.direction, t))))
                   /\ RSign(res) >= 0
                   /\ res = RAbs(Line_distance_to_point(Line_from(ray), arg))
                   /\ RMul(res, res) = RSub(NormSquared(w), RMul(t, t))

\* a point in front of the origin and off the line of the ray, for a ray that
\* is not parallel to an axis
C3_Witness ==
    /\ op = "Ray::distance_to_point"
    /\ HasUnitDirection(ray)
    /\ RSign(ProjectionOf(ray, arg)) > 0
    /\ RSign(res) > 0
    /\ ~IsZero(ray.direction[1]) /\ ~IsZero(ray.direction[2])

\* C4: a positive distance_to_point(p) means (p-origin).direction > 0, and a
\* negative one means (p-origin).direction < 0
C4_SignTellsSide ==
    op = "Ray::distance_to_point" /\ HasUnitDirection(ray) =>
        /\ RSign(res) > 0 => RSign(ProjectionOf(ray, arg)) > 0
        /\ RSign(res) < 0 => RSign(ProjectionOf(ray, arg)) < 0

\* C5: distance_to_point_squared(p) takes the branch distance_to_point(p)
\* takes, has its sign, and its magnitude is the square of the magnitude of
\* distance_to_point(p)
C5_RaySquaredSameSemantics ==
    op = "Ray::distance_to_point_squared" /\ HasUnitDirection(ray) =>
        LET w    == VSub(arg, ray.origin)
            t    == ProjectionOf(ray, arg)
            dist == Ray_distance_to_point(ray, arg)
        IN  /\ RSign(res) = RSign(dist)
            /\ RAbs(res) = RMul(dist, dist)
            /\ RSign(t) <= 0 => res = RNeg(NormSquared(w))
            /\ RSign(t) > 0 =>
                   res = NormSquared(VSub(w, Scale(ray.direction, t)))

\* a point behind the origin: the squared distance is negative
C5_Witness ==
    /\ op = "Ray::distance_to_point_squared"
    /\ HasUnitDirection(ray)
    /\ RSign(ProjectionOf(ray, arg)) < 0
    /\ RSign(res) < 0
    /\ res # Ray_distance_to_point(ray, arg)

(***************************************************************************)
(* Line                                                                    *)
(***************************************************************************)
HasUnitNormal(l) == NormSquared(l.normal) = Lit(1)

\* C6: for a line with unit normal n and offset c, distance_to_point(p) is
\* n.x*p.x + n.y*p.y + c, the signed distance of p along n from the line
\* (p - distance*n is on the line), and distance_to_point_squared(p) is the
\* square of distance_to_point(p), never negative
C6_LineDistance ==
    /\ op = "Line::distance_to_point" /\ HasUnitNormal(line) =>
          /\ res = RAdd(RAdd(RMul(line.normal[1], arg[1]),
                             RMul(line.normal[2], arg[2])), line.c)
          /\ LET foot == VSub(arg, Scale(line.normal, res))
             IN  IsZero(RAdd(Dot(line.normal, foot), line.c))
    /\ op = "Line::distance_to_point_squared" /\ HasUnitNormal(line) =>
          LET dist == Line_distance_to_point(line, arg)
          IN  /\ res = RMul(dist, dist)
              /\ RSign(res) >= 0

\* the squared distance of a point on the negative side of a line whose
\* normal is not parallel to an axis
C6_Witness ==
    /\ op = "Line::distance_to_point_squared"
    /\ HasUnitNormal(line)
    /\ RSign(Line_distance_to_point(line, arg)) < 0
    /\ RSign(res) > 0
    /\ ~IsZero(line.normal[1]) /\ ~IsZero(line.normal[2])

\* C7: Line::from(ray) has the normal (-direction.y, direction.x) and an
\* offset that puts the origin on the line, and so every point
\* origin + t*direction is at distance 0 from the line
C7_LineFromRay ==
    op = "Line::from" /\ HasUnitDirection(ray) =>
        /\ line.normal = <<RNeg(ray.direction[2]), ray.direction[1]>>
        /\ IsZero(Line_distance_to_point(line, ray.origin))
        /\ \A t \in Lengths :
              IsZero(Line_distance_to_point(
                         line, VAdd(ray.origin, Scale(ray.direction, t))))

\* a ray whose line does not pass through (0, 0)
C7_Witness ==
    /\ op = "Line::from"
    /\ HasUnitDirection(ray)
    /\ ~IsZero(line.c)
    /\ ~IsZero(ray.direction[1]) /\ ~IsZero(ray.direction[2])

C9_RoundTrip ==
    (/\ op = "Ray::as_segment"
     /\ seg # None
     /\ seg.start # seg.end
     /\ ray = Ray_from(seg)
     /\ arg = RSqrt(DistSq(seg.start, seg.end)))
        => res.start = seg.start /\ res.end = seg.end

\* the round trip of a segment whose length is not rational
C9_Witness ==
    /\ op = "Ray::as_segment"
    /\ seg # None
    /\ seg.start # seg.end
    /\ arg = RSqrt(DistSq(seg.start, seg.end))
    /\ arg[2] # 0
    /\ res = seg

(***************************************************************************)
(* intersect_segments                                                      *)
(***************************************************************************)
IsPoint(s) == s.start = s.end

\* C10: for two zero-length segments a and b, intersect_segments(a, b) is
\* Point(a.start) if a.start = b.start and None otherwise
C10_ZeroLengthSegments ==
    op = "intersect_segments" /\ IsPoint(seg) /\ IsPoint(arg) =>
        IF seg.start = arg.start
        THEN res = [tag |-> "Point", point |-> seg.start]
        ELSE res = [tag |-> "None"]

\* two zero-length segments at the same point
C10_Witness ==
    /\ op = "intersect_segments"
    /\ IsPoint(seg) /\ IsPoint(arg)
    /\ seg.start = arg.start
    /\ res.tag = "Point"

(***************************************************************************)
(* intersect_segments against the segments as sets of points               *)
(***************************************************************************)
\* the side of r with respect to the directed line from p to q: 1 left,
\* -1 right, 0 on the line
Orient(p, q, r) == RSign(Dot(VSub(r, p), perp_vec2d(VSub(q, p))))

\* r, a point of the line through s, is between the end points of s
Within(s, r) ==
    /\ RSign(Dot(VSub(r, s.start), VSub(r, s.end))) <= 0
    /\ Orient(s.start, s.end, r) = 0
    /\ IsPoint(s) => r = s.start

\* the segments have a point in common
Meet(s1, s2) ==
    \/ /\ Orient(s1.start, s1.end, s2.start) * Orient(s1.start, s1.end, s2.end) < 0
       /\ Orient(s2.start, s2.end, s1.start) * Orient(s2.start, s2.end, s1.end) < 0
    \/ Within(s1, s2.start)
    \/ Within(s1, s2.end)
    \/ Within(s2, s1.start)
    \/ Within(s2, s1.end)

\* the segments have non-zero length and the same or opposite directions
ParallelProper(s1, s2) ==
    /\ ~IsPoint(s1)
    /\ ~IsPoint(s2)
    /\ IsZero(Dot(VSub(s1.end, s1.start),
                  perp_vec2d(VSub(s2.end, s2.start))))

\* C11: intersect_segments(a, b) is None exactly when a and b have no point
\* in common, and a Point or an Overlap it returns lies on both segments
C11_IntersectionOfPointSets ==
    op = "intersect_segments" =>
        /\ res.tag = "None" <=> ~Meet(seg, arg)
        /\ res.tag = "Point" =>
               Within(seg, res.point) /\ Within(arg, res.point)
        /\ res.tag = "Overlap" =>
               /\ Within(seg, res.segment.start) /\ Within(seg, res.segment.end)
               /\ Within(arg, res.segment.start) /\ Within(arg, res.segment.end)

CrossOf(s1, s2) ==
    Dot(VSub(s1.end, s1.start), perp_vec2d(VSub(s2.end, s2.start)))

\* C16: intersect_segments enters its degenerate branch exactly when the
\* magnitude of dir_a . perp(dir_b) is at or below machine epsilon; a cross
\* scalar of magnitude above epsilon, of either sign, does not enter it
C16_DegenerateBranchByMagnitude ==
    op = "intersect_segments" =>
        (branch = "degenerate" <=> RLe(RAbs(CrossOf(seg, arg)), EPSILON))

\* C17: intersect_segments(a, b) = intersect_segments(b, a)
C17_IntersectionSymmetric ==
    op = "intersect_segments" => res = intersect_segments(arg, seg)

\* two segments whose cross scalar is positive: the call takes the general
\* branch and the call with the arguments swapped the degenerate one
C17_Witness ==
    /\ op = "intersect_segments"
    /\ RSign(CrossOf(seg, arg)) > 0
    /\ RSign(CrossOf(arg, seg)) < 0
    /\ branch = "general"
    /\ intersect_segments_branch(arg, seg) = "degenerate"

(***************************************************************************)
(* Segment::distance_to_point, Ray::as_segment, perp_vec2d, perp_unit2d    *)
(***************************************************************************)
\* C13: Segment::distance_to_point(p) is the norm of p - closest_point(p) and
\* distance_to_point_squared(p) its squared norm; neither is negative, and
\* each is 0 exactly when p is closest_point(p)
C13_SegmentDistance ==
    /\ op = "Segment::distance_to_point" =>
          LET cp == closest_point(seg, arg)
          IN  /\ res = RSqrt(DistSq(arg, cp))
              /\ RSign(res) >= 0
              /\ IsZero(res) <=> arg = cp
              /\ \A q \in PointsOn(seg) : RLe(RMul(res, res), DistSq(arg, q))
    /\ op = "Segment::distance_to_point_squared" =>
          LET cp == closest_point(seg, arg)
          IN  /\ res = DistSq(arg, cp)
              /\ RSign(res) >= 0
              /\ IsZero(res) <=> arg = cp

\* a distance that is not rational, to a point strictly inside the segment
C13_Witness ==
    /\ op = "Segment::distance_to_point"
    /\ closest_point_branch(seg, arg) = "between"
    /\ res[2] # 0

\* C14: for a ray and a length of any sign, as_segment(length) starts at the
\* origin and ends at origin + direction*length; its length() is |length|,
\* and a negative length points it against the direction
C14_AsSegment ==
    op = "Ray::as_segment" /\ HasUnitDirection(ray) =>
        /\ res.start = ray.origin
        /\ VSub(res.end, res.start) = Scale(ray.direction, arg)
        /\ RSqrt(DistSq(res.start, res.end)) = RAbs(arg)
        /\ RSign(arg) < 0 =>
               RSign(Dot(VSub(res.end, res.start), ray.direction)) < 0

\* a negative length along a direction that is not parallel to an axis
C14_Witness ==
    /\ op = "Ray::as_segment"
    /\ HasUnitDirection(ray)
    /\ RSign(arg) < 0
    /\ ~IsZero(ray.direction[1]) /\ ~IsZero(ray.direction[2])
    /\ RSqrt(DistSq(res.start, res.end)) = RNeg(arg)

\* C15: perp_vec2d(v) is (-v.y, v.x) and has the norm of v; perp_unit2d of a
\* unit vector is the same rotation and has length 1
C15_Perpendicular ==
    /\ op = "perp_vec2d" =>
          /\ res = <<RNeg(arg[2]), arg[1]>>
          /\ RSqrt(NormSquared(res)) = RSqrt(NormSquared(arg))
    /\ op = "perp_unit2d" /\ NormSquared(arg) = Lit(1) =>
          /\ res = <<RNeg(arg[2]), arg[1]>>
          /\ res = perp_vec2d(arg)
          /\ RSqrt(NormSquared(res)) = Lit(1)

\* the rotation of a unit vector that is not parallel to an axis
C15_Witness ==
    /\ op = "perp_unit2d"
    /\ NormSquared(arg) = Lit(1)
    /\ ~IsZero(arg[1]) /\ ~IsZero(arg[2])
    /\ NormSquared(res) = Lit(1)

====
